---------------------------- MODULE Spec2Model ----------------------------
(***************************************************************************)
(* The feature-magnitude notebook "Variable magnitude_3.7.ipynb": a        *)
(* MinMaxScaler is constructed, fitted on X_train and applied to X_train   *)
(* and X_test; twelve model cells then fit a classifier and print its      *)
(* roc-auc on the train and the test partition.                            *)
(*                                                                         *)
(* Numbers: the arrays of the notebook are float64.  A float64 is the      *)
(* record [c, s, e, m]: c is "num", "inf" or "nan", s the sign (1 or -1),  *)
(* and a finite value is s * m * 2^e with m = 0 (zero, signed) or          *)
(* 2^52 <= m < 2^53, or a subnormal m < 2^52 at the smallest exponent; m   *)
(* is held as limbs of base 2^14.  Every operation rounds to nearest, ties *)
(* to even, as IEEE 754 does: to infinity beyond the largest finite value, *)
(* to a subnormal value or 0 below the smallest normal one.                *)
(***************************************************************************)
EXTENDS Integers, Sequences, FiniteSets, TLC

VARIABLES
    scaler,          \* the MinMaxScaler object: its fitted attributes
    fitted_on,       \* the rows the scaler has seen since its last reset, <<>> if none
    call,            \* the last call a client made on the scaler, with its result
    n_fits,          \* fit, partial_fit and fit_transform calls the client made so far
    n_reads,         \* transform / inverse_transform calls made since the last such call
    pc,              \* the notebook cell to run next: <<"split">>, ..., <<"model", c>>
    data,            \* the DataFrame read from titanic.csv: the feature columns
    X_train, X_test, \* the feature matrices of the split
    X_train_scaled, X_test_scaled,
    stats,           \* the minimum and maximum the notebook prints of X_train_scaled
    models,          \* the model variables of the kernel: what each is bound to
    pred,            \* the variable pred: which model predicted it, on which matrix
    printed,         \* the roc-auc lines printed so far
    failing,         \* the model cells whose collaborator raises, and in which call
    error,           \* the exception that ended the run from top to bottom, if any
    by_hand          \* the number of cells run by hand, out of their turn

clientvars == <<call, n_fits, n_reads>>

nbvars == <<pc, data, X_train, X_test, X_train_scaled, X_test_scaled, stats, models,
            pred, printed, failing, error, by_hand>>

vars == <<scaler, fitted_on, clientvars, nbvars>>

-----------------------------------------------------------------------------
(* natural numbers of any size, for the 53-bit significands and their      *)
(* products: the limbs of base 2^14, lowest first, the highest not 0       *)

Base == 2^14

Limb(a, i) == IF i >= 1 /\ i <= Len(a) THEN a[i] ELSE 0

RECURSIVE BTrim(_)
BTrim(a) ==
    IF a = <<>> THEN a
    ELSE IF a[Len(a)] = 0 THEN BTrim(SubSeq(a, 1, Len(a) - 1)) ELSE a

Zeros(k) == [i \in 1..k |-> 0]

RECURSIVE BAddC(_, _, _, _)
BAddC(a, b, i, c) ==
    IF i > Len(a) /\ i > Len(b) THEN (IF c = 0 THEN <<>> ELSE <<c>>)
    ELSE LET t == Limb(a, i) + Limb(b, i) + c
         IN  <<t % Base>> \o BAddC(a, b, i + 1, t \div Base)

BAdd(a, b) == BAddC(a, b, 1, 0)

RECURSIVE BSubC(_, _, _, _)
BSubC(a, b, i, c) ==
    IF i > Len(a) THEN <<>>
    ELSE LET t == Limb(a, i) - Limb(b, i) - c
         IN  IF t < 0 THEN <<t + Base>> \o BSubC(a, b, i + 1, 1)
             ELSE <<t>> \o BSubC(a, b, i + 1, 0)

\* a - b for a >= b
BSub(a, b) == BTrim(BSubC(a, b, 1, 0))

RECURSIVE BMulSmallC(_, _, _, _)
BMulSmallC(a, q, i, c) ==
    IF i > Len(a) THEN (IF c = 0 THEN <<>> ELSE <<c>>)
    ELSE LET t == a[i] * q + c
         IN  <<t % Base>> \o BMulSmallC(a, q, i + 1, t \div Base)

\* a * q for a limb q
BMulSmall(a, q) == IF q = 0 THEN <<>> ELSE BMulSmallC(a, q, 1, 0)

RECURSIVE BMulC(_, _, _)
BMulC(a, b, i) ==
    IF i > Len(b) THEN <<>>
    ELSE BAdd(IF b[i] = 0 THEN <<>> ELSE Zeros(i - 1) \o BMulSmall(a, b[i]),
              BMulC(a, b, i + 1))

BMul(a, b) == BMulC(a, b, 1)

\* -1, 0, 1 as a < b, a = b, a > b
BCmp(a, b) ==
    IF Len(a) # Len(b) THEN (IF Len(a) < Len(b) THEN -1 ELSE 1)
    ELSE LET D == {i \in 1..Len(a) : a[i] # b[i]}
         IN  IF D = {} THEN 0
             ELSE LET k == CHOOSE i \in D : \A j \in D : j <= i
                  IN  IF a[k] < b[k] THEN -1 ELSE 1

LimbBits(x) == CHOOSE k \in 0..14 : x < 2^k /\ (k = 0 \/ x >= 2^(k - 1))

\* the number of bits of a
BitLen(a) == IF a = <<>> THEN 0 ELSE 14 * (Len(a) - 1) + LimbBits(a[Len(a)])

\* a * 2^n
BShl(a, n) == IF a = <<>> THEN a ELSE Zeros(n \div 14) \o BMulSmall(a, 2^(n % 14))

\* a \div 2^n
BShr(a, n) ==
    LET k == n \div 14
        p == 2^(n % 14)
        q == 2^(14 - (n % 14))
    IN  BTrim([i \in 1..(Len(a) - k) |->
                 (Limb(a, i + k) \div p) + (Limb(a, i + k + 1) % p) * q])

\* bit n of a, the lowest being bit 0
BBit(a, n) == (Limb(a, (n \div 14) + 1) \div 2^(n % 14)) % 2

\* one of the n lowest bits of a is set
BLowNonzero(a, n) ==
    \E i \in 1..Len(a) : \/ i <= n \div 14 /\ a[i] # 0
                         \/ i = (n \div 14) + 1 /\ a[i] % 2^(n % 14) # 0

RECURSIVE BDigitFix(_, _, _)
\* the largest q <= qhat with d * q <= r
BDigitFix(r, d, qhat) ==
    IF BCmp(BMulSmall(d, qhat), r) > 0 THEN BDigitFix(r, d, qhat - 1) ELSE qhat

\* r \div d for r < d * Base, the highest limb of d being at least Base / 2
BDigit(r, d) ==
    IF BCmp(r, d) < 0 THEN 0
    ELSE LET top == Limb(r, Len(d) + 1) * Base + Limb(r, Len(d))
             qhat == top \div d[Len(d)]
         IN  BDigitFix(r, d, IF qhat >= Base THEN Base - 1 ELSE qhat)

\* the quotient limb q put above the quotient limbs of the rest
BDivJoin(rest, q) == [q |-> rest.q \o <<q>>, r |-> rest.r]

RECURSIVE BDivC(_, _, _, _)
\* the quotient limb q of the remainder r1 taken, the rest divided
BDivPut(a, d, i, r1, q) ==
    BDivJoin(BDivC(a, d, i - 1, IF q = 0 THEN r1 ELSE BSub(r1, BMulSmall(d, q))), q)

\* long division: the limbs i, i-1, ..., 1 of a are still to be brought down
\* to the remainder r; the result is the quotient limbs 1..i, with the final
\* remainder
BDivStep(a, d, i, r1) == BDivPut(a, d, i, r1, BDigit(r1, d))

BDivC(a, d, i, r) ==
    IF i = 0 THEN [q |-> <<>>, r |-> r]
    ELSE BDivStep(a, d, i, BTrim(<<a[i]>> \o r))

\* quotient (its highest limbs may be 0) and remainder of a by d, the highest
\* limb of d at least Base / 2
BDivMod(a, d) == BDivC(a, d, Len(a), <<>>)

-----------------------------------------------------------------------------
(* float64 arithmetic *)

Num(s, m, e) == [c |-> "num", s |-> s, e |-> e, m |-> m]
FZero(s) == [c |-> "num", s |-> s, e |-> 0, m |-> <<>>]
Inf(s) == [c |-> "inf", s |-> s, e |-> 0, m |-> <<>>]
NaN == [c |-> "nan", s |-> 1, e |-> 0, m |-> <<>>]

IsNaN(a) == a.c = "nan"
IsInf(a) == a.c = "inf"
IsFinite(a) == a.c = "num"
IsZero(a) == a.c = "num" /\ a.m = <<>>

\* the exponents of the format: the largest finite value is
\* (2^53 - 1) * 2^MaxExp, the smallest above 0 is 1 * 2^MinExp; below
\* 2^52 * 2^MinExp the values are subnormal, m < 2^52 and e = MinExp
MaxExp == 971
MinExp == -1074

\* s * m * 2^e as a float64, m being rounded already: 0 where nothing is
\* left of it, infinity where the exponent is beyond the format
Ranged(s, m, e) ==
    IF m = <<>> THEN FZero(s) ELSE IF e > MaxExp THEN Inf(s) ELSE Num(s, m, e)

\* the r lowest bits of n are rounded up: they are more than half a unit, or
\* half a unit and the bit above them is odd
RoundsUp(n, r, sticky) ==
    /\ BBit(n, r - 1) = 1
    /\ (sticky \/ BLowNonzero(n, r - 1) \/ BBit(n, r) = 1)

\* s * q * 2^e for a rounded q of at most 53 bits, or of 54 bits (2^53)
\* after a carry
Carried(s, q, e) ==
    IF BitLen(q) = 54 THEN Ranged(s, BShr(q, 1), e + 1) ELSE Ranged(s, q, e)

\* n with its r lowest bits rounded off (r > 0), or brought up by -r bits
RoundAt(s, n, e, sticky, r) ==
    IF r <= 0 THEN Ranged(s, BShl(n, -r), e + r)
    ELSE Carried(s,
                 IF RoundsUp(n, r, sticky) THEN BAdd(BShr(n, r), <<1>>) ELSE BShr(n, r),
                 e + r)

\* Round64 for n of L bits, L > 0: 53 bits are kept, fewer where the value
\* is subnormal
RoundBits(s, n, e, sticky, L) ==
    RoundAt(s, n, e, sticky, IF L - 53 >= MinExp - e THEN L - 53 ELSE MinExp - e)

\* the float64 nearest to s * (n + f) * 2^e, ties to even, where 0 <= f < 1
\* and f > 0 exactly if sticky
Round64(s, n, e, sticky) ==
    IF n = <<>> THEN FZero(s) ELSE RoundBits(s, n, e, sticky, BitLen(n))

RECURSIVE NatLimbs(_)
NatLimbs(n) == IF n = 0 THEN <<>> ELSE <<n % Base>> \o NatLimbs(n \div Base)

\* the float64 of an integer
AsFloat(x) == IF x < 0 THEN Round64(-1, NatLimbs(-x), 0, FALSE)
              ELSE Round64(1, NatLimbs(x), 0, FALSE)

RNeg(a) == IF IsNaN(a) THEN a ELSE [a EXCEPT !.s = -a.s]

\* |a| < |b| for finite a, b that are not 0
MagLess(a, b) == a.e < b.e \/ (a.e = b.e /\ BCmp(a.m, b.m) < 0)

\* the sum of finite a, b that are not 0, a.e >= b.e
\* the sign and the size of s * x + t * y, for sizes x, y that compare as c;
\* an exact 0 is +0
Signed(s, x, t, y, c) ==
    IF s = t THEN [s |-> s, m |-> BAdd(x, y)]
    ELSE IF c = 0 THEN [s |-> 1, m |-> <<>>]
    ELSE IF c > 0 THEN [s |-> s, m |-> BSub(x, y)]
    ELSE [s |-> t, m |-> BSub(y, x)]

\* a + b with a.m brought to the exponent of b as x
AddAligned(a, b, x) == Signed(a.s, x, b.s, b.m, BCmp(x, b.m))

\* a + b where b is too small to reach the bits of a that are kept: a, with
\* b left as a sticky part below or above it
AddFar(a, b) ==
    [s |-> a.s, m |-> IF a.s = b.s THEN BShl(a.m, 2) ELSE BSub(BShl(a.m, 2), <<1>>)]

Rounded(x, e, sticky) == Round64(x.s, x.m, e, sticky)

AddOrdered(a, b) ==
    Rounded(IF a.e - b.e > 60 THEN AddFar(a, b) ELSE AddAligned(a, b, BShl(a.m, a.e - b.e)),
            IF a.e - b.e > 60 THEN a.e - 2 ELSE b.e,
            a.e - b.e > 60)

\* a, b with the larger exponent first
Ordered(a, b) == IF a.e >= b.e THEN <<a, b>> ELSE <<b, a>>

AddPair(p) == AddOrdered(p[1], p[2])

RAdd(a, b) ==
    IF IsNaN(a) \/ IsNaN(b) THEN NaN
    ELSE IF IsInf(a) /\ IsInf(b) THEN (IF a.s = b.s THEN a ELSE NaN)
    ELSE IF IsInf(a) THEN a
    ELSE IF IsInf(b) THEN b
    ELSE IF IsZero(a) /\ IsZero(b) THEN (IF a.s = b.s THEN a ELSE FZero(1))
    ELSE IF IsZero(a) THEN b
    ELSE IF IsZero(b) THEN a
    ELSE AddPair(Ordered(a, b))

RSub(a, b) == RAdd(a, RNeg(b))

RMul(a, b) ==
    IF IsNaN(a) \/ IsNaN(b) THEN NaN
    ELSE IF IsInf(a) \/ IsInf(b)
         THEN (IF IsZero(a) \/ IsZero(b) THEN NaN ELSE Inf(a.s * b.s))
    ELSE IF IsZero(a) \/ IsZero(b) THEN FZero(a.s * b.s)
    ELSE Round64(a.s * b.s, BMul(a.m, b.m), a.e + b.e, FALSE)

\* the float64 of s * (x.q + x.r / d) * 2^e
RoundedQuotient(s, x, e) == Round64(s, BTrim(x.q), e, x.r # <<>>)

\* a finite a that is not 0 with its significand brought up to 53 bits
Normal(a) ==
    [m |-> BShl(a.m, 53 - BitLen(a.m)), e |-> a.e - (53 - BitLen(a.m))]

\* s * x / y for significands of 53 bits: 56 or 57 quotient bits and the
\* remainder
Divided(s, x, y) ==
    RoundedQuotient(s, BDivMod(Zeros(4) \o BShl(x.m, 3), BShl(y.m, 3)), x.e - y.e - 56)

RDiv(a, b) ==
    IF IsNaN(a) \/ IsNaN(b) THEN NaN
    ELSE IF IsInf(a) THEN (IF IsInf(b) THEN NaN ELSE Inf(a.s * b.s))
    ELSE IF IsInf(b) THEN FZero(a.s * b.s)
    ELSE IF IsZero(b) THEN (IF IsZero(a) THEN NaN ELSE Inf(a.s * b.s))
    ELSE IF IsZero(a) THEN FZero(a.s * b.s)
    ELSE Divided(a.s * b.s, Normal(a), Normal(b))

\* a < b for a, b that are not nan
Sgn(a) == IF IsZero(a) THEN 0 ELSE a.s

Less(a, b) ==
    IF IsInf(a) THEN a.s = -1 /\ ~(IsInf(b) /\ b.s = -1)
    ELSE IF IsInf(b) THEN b.s = 1
    ELSE IF Sgn(a) # Sgn(b) THEN Sgn(a) < Sgn(b)
    ELSE IF Sgn(a) = 1 THEN MagLess(a, b)
    ELSE IF Sgn(a) = -1 THEN MagLess(b, a)
    ELSE FALSE

RLt(a, b) == ~IsNaN(a) /\ ~IsNaN(b) /\ Less(a, b)
RLe(a, b) == ~IsNaN(a) /\ ~IsNaN(b) /\ ~Less(b, a)
REq(a, b) == ~IsNaN(a) /\ ~IsNaN(b) /\ ~Less(a, b) /\ ~Less(b, a)

-----------------------------------------------------------------------------
(* matrices: a sequence of rows, each row a sequence of feature values *)

\* the feature columns selected for X
Features == <<"Pclass", "Age", "Fare">>

MaxTrainRows == 2
MaxFits == 2
MaxReads == 2

\* the matrices of the worked examples
ExampleTrain == <<<<1, 10>>, <<3, 20>>, <<5, 30>>>>
ConstantColumnTrain == <<<<2, 10>>, <<2, 20>>, <<2, 30>>>>
ExampleRows == {<<<<3, 20>>>>, <<<<5, 30>>>>, <<<<6, 35>>>>}
RaggedMatrix == <<<<1, 3>>, <<1>>>>

\* a matrix whose column maxima do not scale to 1 exactly: the first comes
\* out above 1, the second below
RoundingTrain == <<<<1, 1>>, <<6, 7>>>>

\* the rows of the sampled matrices: as wide as the worked examples
Rows == {<<1, 3>>, <<3, 1>>}

MatricesUpTo(n) == UNION {[1..k -> Rows] : k \in 0..n}

\* matrices handed to fit: every matrix of at most MaxTrainRows sampled rows
\* (the one with zero rows included), the examples and a ragged one
FitInputs ==
    MatricesUpTo(MaxTrainRows)
        \cup {ExampleTrain, ConstantColumnTrain, RoundingTrain, RaggedMatrix}

\* matrices handed to transform besides the fitted one: single rows
TransformInputs == MatricesUpTo(1) \cup ExampleRows \cup {RaggedMatrix}

\* matrices handed to inverse_transform(transform(.)) besides the fitted one
RoundTripInputs == ExampleRows \cup {<<<<3, 1>>>>}

\* matrices handed to partial_fit: further batches of rows
PartialFitInputs == ExampleRows \cup {RaggedMatrix}

\* matrices handed to fit_transform
FitTransformInputs == {RoundingTrain, RaggedMatrix}

\* sklearn.utils.check_array with its defaults: a 2-D array with at least one
\* row and one column; a ragged nested list does not convert to a 2-D float array
check_array(X) ==
    /\ Len(X) >= 1
    /\ Len(X[1]) >= 1
    /\ \A r \in 1..Len(X) : Len(X[r]) = Len(X[1])

n_features(X) == Len(X[1])

\* check_array(X, dtype=FLOAT_DTYPES): the values as float64
AsFloatMatrix(X) == [r \in 1..Len(X) |-> [j \in 1..Len(X[r]) |-> AsFloat(X[r][j])]]

\* (variant) np.min(X) without axis=0: the values of the whole matrix
Column_all_axes(X, j) == {X[r][c] : r \in 1..Len(X), c \in 1..Len(X[1])}

\* X[:, j]
Column(X, j) == {X[r][j] : r \in 1..Len(X)}

\* ndarray.min and ndarray.max of the values S: nan if one of them is nan
RSetMin(S) == IF \E v \in S : IsNaN(v) THEN NaN ELSE CHOOSE v \in S : \A w \in S : RLe(v, w)
RSetMax(S) == IF \E v \in S : IsNaN(v) THEN NaN ELSE CHOOSE v \in S : \A w \in S : RLe(w, v)

\* np.nanmin and np.nanmax: the nan values are left out; nan if all are nan
nanmin(S) == LET T == {v \in S : ~IsNaN(v)} IN IF T = {} THEN NaN ELSE RSetMin(T)
nanmax(S) == LET T == {v \in S : ~IsNaN(v)} IN IF T = {} THEN NaN ELSE RSetMax(T)

\* np.minimum and np.maximum of two values: nan if one of them is nan
minimum(a, b) == IF IsNaN(a) \/ IsNaN(b) THEN NaN ELSE IF RLe(a, b) THEN a ELSE b
maximum(a, b) == IF IsNaN(a) \/ IsNaN(b) THEN NaN ELSE IF RLe(b, a) THEN a ELSE b

-----------------------------------------------------------------------------
(* sklearn.preprocessing.MinMaxScaler, as the notebook uses it.  A method   *)
(* is an operator from the object and the argument to the object after the *)
(* call (self), the returned array (ret) and the exception raised (err).   *)

\* MinMaxScaler(): feature_range=(0, 1); no fitted attribute exists yet
feature_range == <<0, 1>>

MinMaxScaler ==
    [fitted |-> FALSE, n_samples_seen_ |-> 0,
     data_min_ |-> <<>>, data_max_ |-> <<>>, data_range_ |-> <<>>,
     scale_ |-> <<>>, min_ |-> <<>>]

\* _reset: delete the fitted attributes, if there are any
reset(self) == IF self.fitted THEN MinMaxScaler ELSE self

\* (variant) the range is used as it is
handle_zeros_in_scale_absent(range) == range

\* _handle_zeros_in_scale: scale[scale == 0.0] = 1.0
handle_zeros_in_scale(range) == IF REq(range, AsFloat(0)) THEN AsFloat(1) ELSE range

\* (variant) the object is marked fitted before the input is validated
rejected_after_marking(self, e) ==
    [self |-> [self EXCEPT !.fitted = TRUE], ret |-> <<>>, err |-> e]

\* a call that raises e: nothing is returned, no attribute is set
rejected(self, e) == [self |-> self, ret |-> <<>>, err |-> e]

\* two arrays of n and k columns broadcast to one shape
broadcasts(n, k) == n = k \/ n = 1 \/ k = 1

\* element j of an array a broadcast to more columns
bc(a, j) == IF Len(a) = 1 THEN a[1] ELSE a[j]

\* self.min_ = feature_range[0] - data_min * self.scale_, the last of the
\* attributes partial_fit sets
fitted_scale(n_seen, data_min, data_max, data_range, scale) ==
    [fitted |-> TRUE,
     n_samples_seen_ |-> n_seen,
     data_min_ |-> data_min, data_max_ |-> data_max,
     data_range_ |-> data_range,
     scale_ |-> scale,
     min_ |-> [j \in 1..Len(scale) |->
                 RSub(AsFloat(feature_range[1]), RMul(data_min[j], scale[j]))]]

\* self.scale_ = (feature_range[1] - feature_range[0])
\*               / _handle_zeros_in_scale(data_range)
fitted_range(n_seen, data_min, data_max, data_range) ==
    fitted_scale(n_seen, data_min, data_max, data_range,
                 [j \in 1..Len(data_range) |->
                     RDiv(AsFloat(feature_range[2] - feature_range[1]),
                          handle_zeros_in_scale(data_range[j]))])

\* data_range = data_max - data_min
fitted_min_max(n_seen, data_min, data_max) ==
    fitted_range(n_seen, data_min, data_max,
                 [j \in 1..Len(data_min) |-> RSub(data_max[j], data_min[j])])

\* the number of columns of data_min: those of X, or those seen before where
\* X has one column that is broadcast
n_seen_features(self, X) ==
    IF self.fitted /\ Len(self.data_min_) > n_features(X)
    THEN Len(self.data_min_) ELSE n_features(X)

\* data_min = np.nanmin(X, axis=0), merged by np.minimum with self.data_min_
\* on a scaler that is fitted
seen_min(self, X) ==
    [j \in 1..n_seen_features(self, X) |->
        IF self.fitted
        THEN minimum(bc(self.data_min_, j),
                     nanmin(Column(X, IF n_features(X) = 1 THEN 1 ELSE j)))
        ELSE nanmin(Column(X, j))]

\* data_max = np.nanmax(X, axis=0), merged by np.maximum with self.data_max_
seen_max(self, X) ==
    [j \in 1..n_seen_features(self, X) |->
        IF self.fitted
        THEN maximum(bc(self.data_max_, j),
                     nanmax(Column(X, IF n_features(X) = 1 THEN 1 ELSE j)))
        ELSE nanmax(Column(X, j))]

\* partial_fit: per-column min and max of X, merged with those already seen
partial_fit(self, X) ==
    IF ~check_array(X) THEN rejected(self, "ValueError")
    ELSE IF self.fitted /\ ~broadcasts(n_features(X), Len(self.data_min_))
         THEN rejected(self, "ValueError")
    ELSE [self |-> fitted_min_max(self.n_samples_seen_ + Len(X),
                                  seen_min(self, AsFloatMatrix(X)),
                                  seen_max(self, AsFloatMatrix(X))),
          ret |-> <<>>, err |-> "none"]

\* (variant) fit that keeps what earlier fits have seen
fit_without_reset(self, X) == partial_fit(self, X)

\* fit: reset, then partial_fit
fit(self, X) == partial_fit(reset(self), X)

\* (variant) no check that the scaler is fitted
check_is_fitted_absent(self) == TRUE

\* check_is_fitted(self, 'scale_')
check_is_fitted(self) == self.fitted

\* (variant) the shift by min_ is left out
transform_value_no_offset(x, scale, min) == RMul(x, scale)

\* (variant) the result is clipped to the feature range
clip(t) ==
    IF RLt(t, AsFloat(0)) THEN AsFloat(0)
    ELSE IF RLt(AsFloat(1), t) THEN AsFloat(1) ELSE t

transform_value_clipped(x, scale, min) == clip(RAdd(RMul(x, scale), min))

\* (variant) the scaled value is taken from min_
transform_value_reversed(x, scale, min) == RSub(min, RMul(x, scale))

\* X *= self.scale_; X += self.min_
transform_value(x, scale, min) == RAdd(RMul(x, scale), min)

\* (variant) scale_ is multiplied in, not divided out
inverse_value_multiplied(s, scale, min) == RMul(RSub(s, min), scale)

\* X -= self.min_; X /= self.scale_
inverse_value(s, scale, min) == RDiv(RSub(s, min), scale)

\* the notebook's statement of the way back: X = X_rescaled * (max - min) + min
X_from_rescaled(X_rescaled, max, min) == RAdd(RMul(X_rescaled, RSub(max, min)), min)

\* transform: check_is_fitted, check_array (a float64 copy of X), scale and
\* shift in place, scale_ and min_ broadcast over the rows
transform(self, X) ==
    IF ~check_is_fitted(self) THEN rejected(self, "NotFittedError")
    ELSE IF ~check_array(X) THEN rejected(self, "ValueError")
    ELSE IF n_features(X) # Len(self.scale_) /\ Len(self.scale_) # 1
         THEN rejected(self, "ValueError")
    ELSE [self |-> self,
          ret |-> [r \in 1..Len(X) |-> [j \in 1..n_features(X) |->
                     transform_value(AsFloat(X[r][j]),
                                     bc(self.scale_, j), bc(self.min_, j))]],
          err |-> "none"]

\* inverse_transform: check_is_fitted, check_array (a copy of S), shift and
\* scale back in place; S is a float64 matrix
inverse_transform(self, S) ==
    IF ~check_is_fitted(self) THEN rejected(self, "NotFittedError")
    ELSE IF ~check_array(S) THEN rejected(self, "ValueError")
    ELSE IF n_features(S) # Len(self.scale_) /\ Len(self.scale_) # 1
         THEN rejected(self, "ValueError")
    ELSE [self |-> self,
          ret |-> [r \in 1..Len(S) |-> [j \in 1..n_features(S) |->
                     inverse_value(S[r][j], bc(self.scale_, j), bc(self.min_, j))]],
          err |-> "none"]

\* (variant) fit_transform in place of transform: the scaler is fitted on the
\* matrix it is asked to transform
refitted(self, f) == IF f.err # "none" THEN self ELSE f.self

transform_refitting(self, X) == transform(refitted(self, partial_fit(self, X)), X)

\* the call scaler.transform(X) as the client sees it
call_transform(self, X) == transform(self, X)

\* TransformerMixin.fit_transform: self.fit(X).transform(X)
transform_fitted(f, X) == IF f.err # "none" THEN f ELSE transform(f.self, X)

fit_transform(self, X) == transform_fitted(fit(self, X), X)

-----------------------------------------------------------------------------
(* the notebook: its code cells, run from top to bottom; an exception that *)
(* no cell catches ends the run                                            *)

\* the model cells in document order: the variable the classifier is bound
\* to, the classifier, and the matrices it is fitted and scored on
ModelCells == <<
    [var |-> "logistc",   algo |-> "LogisticRegression",
     fit_X |-> "X_train", train_X |-> "X_train", test_X |-> "X_test"],
    [var |-> "logit",     algo |-> "LogisticRegression",
     fit_X |-> "X_train_scaled", train_X |-> "X_train_scaled", test_X |-> "X_test_scaled"],
    [var |-> "SVM_Model", algo |-> "SVC",
     fit_X |-> "X_train", train_X |-> "X_train", test_X |-> "X_test"],
    [var |-> "SVM_model", algo |-> "SVC",
     fit_X |-> "X_train_scaled", train_X |-> "X_train_scaled", test_X |-> "X_test_scaled"],
    [var |-> "NN_model",  algo |-> "MLPClassifier",
     fit_X |-> "X_train", train_X |-> "X_train", test_X |-> "X_test"],
    [var |-> "NN_model",  algo |-> "MLPClassifier",
     fit_X |-> "X_train_scaled", train_X |-> "X_train_scaled", test_X |-> "X_test_scaled"],
    [var |-> "KNN",       algo |-> "KNeighborsClassifier",
     fit_X |-> "X_train", train_X |-> "X_train", test_X |-> "X_test"],
    [var |-> "KNN",       algo |-> "KNeighborsClassifier",
     fit_X |-> "X_train_scaled", train_X |-> "X_train_scaled", test_X |-> "X_test_scaled"],
    [var |-> "rf",        algo |-> "RandomForestClassifier",
     fit_X |-> "X_train", train_X |-> "X_train", test_X |-> "X_test"],
    [var |-> "rf",        algo |-> "RandomForestClassifier",
     fit_X |-> "X_train_scaled", train_X |-> "X_train_scaled", test_X |-> "X_test_scaled"],
    [var |-> "ada",       algo |-> "AdaBoostClassifier",
     fit_X |-> "X_train", train_X |-> "X_train", test_X |-> "X_test"],
    [var |-> "ada",       algo |-> "AdaBoostClassifier",
     fit_X |-> "X_train_scaled", train_X |-> "X_train_scaled", test_X |-> "X_test_scaled"] >>

ModelVars == {ModelCells[c].var : c \in 1..Len(ModelCells)}

\* the calls of a model cell that may raise, in the order the cell makes
\* them: the constructor, fit, predict_proba and roc_auc_score for the train
\* set, predict_proba and roc_auc_score for the test set
StageSeq == <<"construct", "fit", "predict_train", "score_train", "predict_test", "score_test">>

Stages == {StageSeq[i] : i \in 1..Len(StageSeq)}

\* which collaborator raises, and in which call: none, or the first one that
\* does (no cell catches an exception, so the run makes no call after it)
Failings ==
    LET Cells == 1..Len(ModelCells)
    IN  {[c \in Cells |-> "none"]}
            \cup {[c \in Cells |-> IF c = d THEN s ELSE "none"] : d \in Cells, s \in Stages}

\* a cell of the DataFrame: <<v>> holds the value v, <<>> is a missing value
Missing == <<>>

\* the rows a dataset is made of
DataRowSeq == <<  <<<<1>>, Missing, <<1>>>>,  <<<<1>>, <<1>>, <<3>>>>,
                  <<<<3>>, <<3>>, <<1>>>>,  <<<<3>>, <<3>>, Missing>>  >>

DataRows == {DataRowSeq[i] : i \in 1..Len(DataRowSeq)}

\* what titanic.csv may hold: the columns data[Features], MaxTrainRows + 1
\* rows in any order (the place of a row in the file decides the part it
\* goes to and its place there)
Datasets == [1..(MaxTrainRows + 1) -> DataRows]

\* (variant) dropna: the rows with a missing cell are left out
fillna_dropping_rows(frame, v) ==
    SelectSeq(frame, LAMBDA row : \A j \in 1..Len(row) : row[j] # Missing)

\* DataFrame.fillna(v): a missing cell becomes v, every other cell is kept
fillna(frame, v) ==
    [r \in 1..Len(frame) |->
        [j \in 1..Len(frame[r]) |-> IF frame[r][j] = Missing THEN <<v>> ELSE frame[r][j]]]

\* the values of a DataFrame without missing cells
values(frame) == [r \in 1..Len(frame) |-> [j \in 1..Len(frame[r]) |-> frame[r][j][1]]]

\* test_size = 0.3
test_size == <<3, 10>>

\* the number of test rows: ceil(test_size * n_samples)
n_test(n_samples) == (test_size[1] * n_samples + test_size[2] - 1) \div test_size[2]

\* numpy.random.RandomState(0).permutation(n): the shuffle of the positions
\* 1..n that the Mersenne Twister seeded with random_state = 0 gives, for the
\* frames of up to six rows
permutation(n) ==
    CASE n = 0 -> <<>>
      [] n = 1 -> <<1>>
      [] n = 2 -> <<2, 1>>
      [] n = 3 -> <<3, 2, 1>>
      [] n = 4 -> <<3, 4, 2, 1>>
      [] n = 5 -> <<3, 1, 2, 4, 5>>
      [] n = 6 -> <<6, 3, 2, 4, 1, 5>>

\* the rows of a frame at the positions idx, in the order of idx
take(frame, idx) == [i \in 1..Len(idx) |-> frame[idx[i]]]

\* train_test_split(frame, test_size = 0.3, random_state = 0): the first
\* n_test positions of the seeded permutation are the test rows, the others
\* the train rows; both parts are in the order of the permutation
train_test_split(frame) ==
    [train |-> take(frame, SubSeq(permutation(Len(frame)), n_test(Len(frame)) + 1, Len(frame))),
     test  |-> take(frame, SubSeq(permutation(Len(frame)), 1, n_test(Len(frame))))]

NoCall == [op |-> "none", arg |-> <<>>, mid |-> <<>>, ret |-> <<>>, err |-> "none"]

NoError == [cell |-> <<>>, stage |-> "none"]

\* a name of the kernel that no cell has assigned yet
Unbound == [unbound |-> TRUE]

\* the kernel before any cell has run
KernelEmpty ==
    /\ pc = <<"split">>
    /\ X_train = <<>> /\ X_test = <<>>
    /\ X_train_scaled = <<>> /\ X_test_scaled = <<>>
    /\ stats = <<>>
    /\ models = [v \in ModelVars |-> Unbound]
    /\ pred = Unbound
    /\ printed = <<>>
    /\ error = NoError
    /\ by_hand = 0

NotebookNotRun ==
    /\ KernelEmpty
    /\ data = <<>>
    /\ failing = [c \in 1..Len(ModelCells) |-> "none"]

InitNB ==
    /\ scaler = MinMaxScaler
    /\ fitted_on = <<>>
    /\ call = NoCall /\ n_fits = 0 /\ n_reads = 0
    /\ KernelEmpty
    /\ data \in Datasets
    /\ failing \in Failings

\* a cell raised the exception e: it ends a run from top to bottom; a cell
\* run by hand shows it and leaves the kernel to the next cell
raised(hand, e) == error' = IF hand THEN error ELSE [cell |-> pc, stage |-> e]

\* X_train, X_test, y_train, y_test = train_test_split(data[Features].fillna(0), ...)
\* random_state = 0 seeds the shuffle: run again on the same data, the cell
\* binds the names to the same split
split_cell ==
    /\ \E s \in {train_test_split(fillna(data, 0))} :
          /\ X_train' = values(s.train)
          /\ X_test' = values(s.test)
    /\ UNCHANGED <<scaler, fitted_on, clientvars, data, X_train_scaled, X_test_scaled,
                   stats, models, pred, printed, failing>>

Split ==
    /\ pc = <<"split">> /\ error = NoError
    /\ split_cell
    /\ pc' = <<"scale">>
    /\ UNCHANGED <<error, by_hand>>

\* scaler = MinMaxScaler(); scaler.fit(X_train);
\* X_train_scaled = scaler.transform(X_train); X_test_scaled = scaler.transform(X_test)
\* Before the split cell has run, X_train is no name of the kernel: the new
\* scaler is bound and the fit statement raises NameError.
scale_cell(hand) ==
    /\ IF X_train = <<>>
       THEN /\ scaler' = MinMaxScaler /\ fitted_on' = <<>>
            /\ raised(hand, "NameError")
            /\ UNCHANGED <<clientvars, X_train_scaled, X_test_scaled>>
       ELSE
       \E f \in {fit(MinMaxScaler, X_train)} :
       \E t1 \in {call_transform(f.self, X_train)} :
       \E t2 \in {call_transform(t1.self, X_test)} :
       /\ n_fits' = n_fits + 1
       /\ IF f.err # "none"
          THEN /\ scaler' = f.self /\ fitted_on' = <<>>
               /\ call' = [op |-> "fit", arg |-> X_train, mid |-> <<>>, ret |-> <<>>,
                           err |-> f.err]
               /\ n_reads' = 0
               /\ raised(hand, f.err)
               /\ UNCHANGED <<X_train_scaled, X_test_scaled>>
          ELSE IF t1.err # "none"
          THEN /\ scaler' = t1.self /\ fitted_on' = X_train
               /\ call' = [op |-> "transform", arg |-> X_train, mid |-> <<>>, ret |-> t1.ret,
                           err |-> t1.err]
               /\ n_reads' = 1
               /\ raised(hand, t1.err)
               /\ UNCHANGED <<X_train_scaled, X_test_scaled>>
          ELSE IF t2.err # "none"
          THEN /\ scaler' = t2.self /\ fitted_on' = X_train
               /\ call' = [op |-> "transform", arg |-> X_test, mid |-> <<>>, ret |-> t2.ret,
                           err |-> t2.err]
               /\ n_reads' = 2
               /\ X_train_scaled' = t1.ret
               /\ raised(hand, t2.err)
               /\ UNCHANGED X_test_scaled
          ELSE /\ scaler' = t2.self /\ fitted_on' = X_train
               /\ call' = [op |-> "transform", arg |-> X_test, mid |-> <<>>, ret |-> t2.ret,
                           err |-> t2.err]
               /\ n_reads' = 2
               /\ X_train_scaled' = t1.ret
               /\ X_test_scaled' = t2.ret
               /\ UNCHANGED error
    /\ UNCHANGED <<data, X_train, X_test, stats, models, pred, printed, failing>>

Scale ==
    /\ pc = <<"scale">> /\ error = NoError
    /\ scale_cell(FALSE)
    /\ pc' = IF error' = NoError THEN <<"stats">> ELSE pc
    /\ UNCHANGED by_hand

\* print(X_train_scaled.min(axis=0)); print(X_train_scaled.max(axis=0))
\* Before the scale cell has run, X_train_scaled is no name of the kernel and
\* the first print raises NameError.
stats_cell(hand) ==
    /\ IF X_train_scaled = <<>>
       THEN UNCHANGED stats /\ raised(hand, "NameError")
       ELSE /\ stats' = [min |-> [j \in 1..Len(X_train_scaled[1]) |->
                                    RSetMin(Column(X_train_scaled, j))],
                         max |-> [j \in 1..Len(X_train_scaled[1]) |->
                                    RSetMax(Column(X_train_scaled, j))]]
            /\ UNCHANGED error
    /\ UNCHANGED <<scaler, fitted_on, clientvars, data, X_train, X_test, X_train_scaled,
                   X_test_scaled, models, pred, printed, failing>>

Stats ==
    /\ pc = <<"stats">> /\ error = NoError
    /\ stats_cell(FALSE)
    /\ pc' = IF error' = NoError THEN <<"model", 1>> ELSE pc
    /\ UNCHANGED by_hand

\* var = Classifier(...): a new, unfitted classifier
construct(cell) == [algo |-> cell.algo, fitted_on |-> "unfitted", labels |-> "unfitted"]

\* (variant) every classifier is fitted on the unscaled training matrix
model_fit_unscaled(m, X, y) == [m EXCEPT !.fitted_on = "X_train", !.labels = y]

\* var.fit(X, y): the classifier is fitted anew on X and y
model_fit(m, X, y) == [m EXCEPT !.fitted_on = X, !.labels = y]

\* (variant) the probabilities are those of the matrix the model was fitted on
predict_proba_of_fitted(m, X) == [model |-> m, X |-> m.fitted_on]

\* var.predict_proba(X): the probabilities the model m gives the rows of X
predict_proba(m, X) == [model |-> m, X |-> X]

\* (variant) pred keeps the first value it was given
assigned_once(old, new) == IF old = Unbound THEN new ELSE old

\* pred = value: the name holds the new value, whatever it held before
assigned(old, new) == new

\* roc_auc_score(y, p[:,1]): the score, named by what it is computed from
roc_auc_score(y, p) ==
    [algo |-> p.model.algo, fit_X |-> p.model.fitted_on, fit_y |-> p.model.labels,
     X |-> p.X, y |-> y]

\* the statements of model cell c run on the kernel k, up to the call that
\* raises: the kernel they leave and the scores they print.  A name is bound
\* when the call on the right of its assignment has returned: pred holds the
\* probabilities of a partition before roc_auc_score is called on them.
run_cell(k, c, stage) ==
    LET cell == ModelCells[c]
        ms1 == [k.models EXCEPT ![cell.var] = construct(cell)]
        ms2 == [ms1 EXCEPT ![cell.var] = model_fit(ms1[cell.var], cell.fit_X, "y_train")]
        p1  == assigned(k.pred, predict_proba(ms2[cell.var], cell.train_X))
        s1  == roc_auc_score("y_train", p1)
        p2  == assigned(p1, predict_proba(ms2[cell.var], cell.test_X))
        s2  == roc_auc_score("y_test", p2)
    IN  CASE stage = "construct"     -> [models |-> k.models, pred |-> k.pred, out |-> <<>>]
          [] stage = "fit"           -> [models |-> ms1, pred |-> k.pred, out |-> <<>>]
          [] stage = "predict_train" -> [models |-> ms2, pred |-> k.pred, out |-> <<>>]
          [] stage = "score_train"   -> [models |-> ms2, pred |-> p1, out |-> <<>>]
          [] stage = "predict_test"  -> [models |-> ms2, pred |-> p1, out |-> <<s1>>]
          [] stage = "score_test"    -> [models |-> ms2, pred |-> p2, out |-> <<s1>>]
          [] OTHER                   -> [models |-> ms2, pred |-> p2, out |-> <<s1, s2>>]

\* the score a cell prints for one partition when it is run on a fresh kernel
Score(cell, X, y) ==
    roc_auc_score(y, predict_proba(model_fit(construct(cell), cell.fit_X, "y_train"), X))

\* the output of cell c: each score with the cell it stands under
output(c, out) == [i \in 1..Len(out) |-> [cell |-> c, score |-> out[i]]]

\* a name of the kernel is bound once the cell that assigns it has run
bound(name) ==
    CASE name = "X_train"        -> X_train # <<>>
      [] name = "X_test"         -> X_test # <<>>
      [] name = "X_train_scaled" -> X_train_scaled # <<>>
      [] name = "X_test_scaled"  -> X_test_scaled # <<>>

\* the call of model cell c whose arguments name a matrix that is not bound:
\* the call raises NameError
name_error(c) ==
    IF ~bound(ModelCells[c].fit_X) THEN "fit"
    ELSE IF ~bound(ModelCells[c].train_X) THEN "predict_train"
    ELSE IF ~bound(ModelCells[c].test_X) THEN "predict_test"
    ELSE "none"

\* the earlier of two calls of a cell, "none" being no call
first_call(a, b) ==
    IF a = "none" THEN b
    ELSE IF b = "none" THEN a
    ELSE StageSeq[CHOOSE i \in 1..Len(StageSeq) :
                    /\ StageSeq[i] \in {a, b}
                    /\ \A j \in 1..(i - 1) : StageSeq[j] \notin {a, b}]

\* the call at which model cell c ends with an exception, "none" if it runs
\* to its end
raising_call(c) == first_call(failing[c], name_error(c))

\* what running model cell c does to the kernel
CellRun(c) ==
    /\ \E r \in {run_cell([models |-> models, pred |-> pred], c, raising_call(c))} :
          /\ models' = r.models
          /\ pred' = r.pred
          /\ printed' = printed \o output(c, r.out)
    /\ UNCHANGED <<scaler, fitted_on, clientvars, data, X_train, X_test, X_train_scaled,
                   X_test_scaled, stats, failing>>

\* one model cell in a run from top to bottom: construct the classifier, fit
\* it, predict and score the train set, predict and score the test set; the
\* first call that raises ends the cell and the run
ModelCell(c) ==
    /\ pc = <<"model", c>> /\ error = NoError
    /\ CellRun(c)
    /\ error' = IF raising_call(c) = "none" THEN NoError
                ELSE [cell |-> <<"model", c>>, stage |-> raising_call(c)]
    /\ pc' = IF raising_call(c) # "none" THEN pc
             ELSE IF c = Len(ModelCells) THEN <<"done">> ELSE <<"model", c + 1>>
    /\ UNCHANGED by_hand

NextNB ==
    \/ Split
    \/ Scale
    \/ Stats
    \/ \E c \in 1..Len(ModelCells) : ModelCell(c)

SpecNB == InitNB /\ [][NextNB]_vars

\* the cells the user runs by hand, whatever their place in the document
MaxByHand == 2

\* a cell run by hand: the kernel runs it on the names it holds, at any time
\* and any number of times; an exception ends the cell only
SplitByHand ==
    /\ by_hand < MaxByHand
    /\ split_cell
    /\ by_hand' = by_hand + 1
    /\ UNCHANGED <<pc, error>>

ScaleByHand ==
    /\ by_hand < MaxByHand
    /\ scale_cell(TRUE)
    /\ by_hand' = by_hand + 1
    /\ UNCHANGED pc

StatsByHand ==
    /\ by_hand < MaxByHand
    /\ stats_cell(TRUE)
    /\ by_hand' = by_hand + 1
    /\ UNCHANGED pc

ModelCellByHand(c) ==
    /\ by_hand < MaxByHand
    /\ CellRun(c)
    /\ by_hand' = by_hand + 1
    /\ UNCHANGED <<pc, error>>

\* the files read in the runs with cells run by hand: DataRowSeq with rows
\* left out
HandDatasets ==
    {d \in Datasets : \E g \in [1..Len(d) -> 1..Len(DataRowSeq)] :
        /\ \A i \in 1..Len(d) : d[i] = DataRowSeq[g[i]]
        /\ \A i \in 1..(Len(d) - 1) : g[i] < g[i + 1]}

InitAnyOrder ==
    /\ InitNB
    /\ data \in HandDatasets
    /\ failing = [c \in 1..Len(ModelCells) |-> "none"]

\* the cells run from top to bottom, and any cell run by hand in between
NextAnyOrder ==
    \/ Split
    \/ Scale
    \/ Stats
    \/ SplitByHand
    \/ ScaleByHand
    \/ StatsByHand
    \/ \E c \in 1..Len(ModelCells) : ModelCell(c)
    \/ \E c \in 1..Len(ModelCells) : ModelCellByHand(c)

SpecAnyOrder == InitAnyOrder /\ [][NextAnyOrder]_vars

-----------------------------------------------------------------------------
(* a client of the scaler: any sequence of calls on one scaler object *)

Init ==
    /\ scaler = MinMaxScaler
    /\ fitted_on = <<>>
    /\ call = NoCall
    /\ n_fits = 0
    /\ n_reads = 0
    /\ NotebookNotRun

\* scaler.fit(m)
Fit(m) ==
    /\ n_fits < MaxFits
    /\ \E r \in {fit(scaler, m)} :
       /\ scaler' = r.self
       /\ fitted_on' = IF r.err = "none" THEN m ELSE <<>>
       /\ call' = [op |-> "fit", arg |-> m, mid |-> <<>>, ret |-> <<>>, err |-> r.err]
       /\ n_fits' = n_fits + 1
       /\ n_reads' = 0
       /\ UNCHANGED nbvars

\* scaler.partial_fit(m)
PartialFit(m) ==
    /\ n_fits < MaxFits
    /\ \E r \in {partial_fit(scaler, m)} :
       /\ scaler' = r.self
       /\ fitted_on' = IF r.err = "none" THEN fitted_on \o m ELSE fitted_on
       /\ call' = [op |-> "partial_fit", arg |-> m, mid |-> <<>>, ret |-> <<>>, err |-> r.err]
       /\ n_fits' = n_fits + 1
       /\ n_reads' = 0
       /\ UNCHANGED nbvars

\* scaler.fit_transform(m)
FitTransform(m) ==
    /\ n_fits < MaxFits
    /\ \E r \in {fit_transform(scaler, m)} :
       /\ scaler' = r.self
       /\ fitted_on' = IF r.err = "none" THEN m ELSE <<>>
       /\ call' = [op |-> "fit_transform", arg |-> m, mid |-> <<>>, ret |-> r.ret, err |-> r.err]
       /\ n_fits' = n_fits + 1
       /\ n_reads' = 0
       /\ UNCHANGED nbvars

\* scaler.transform(m)
Transform(m) ==
    /\ n_reads < MaxReads
    /\ \E r \in {call_transform(scaler, m)} :
       /\ scaler' = r.self
       /\ call' = [op |-> "transform", arg |-> m, mid |-> <<>>, ret |-> r.ret, err |-> r.err]
       /\ n_reads' = n_reads + 1
       /\ UNCHANGED <<fitted_on, n_fits, nbvars>>

\* scaler.inverse_transform(scaler.transform(m))
RoundTrip(m) ==
    /\ n_reads < MaxReads
    /\ \E t \in {call_transform(scaler, m)} :
       \E r \in {IF t.err = "none" THEN inverse_transform(t.self, t.ret) ELSE t} :
       /\ scaler' = r.self
       /\ call' = [op |-> "round_trip", arg |-> m, mid |-> t.ret, ret |-> r.ret, err |-> r.err]
       /\ n_reads' = n_reads + 1
       /\ UNCHANGED <<fitted_on, n_fits, nbvars>>

Next ==
    \/ \E m \in FitInputs : Fit(m)
    \/ \E m \in PartialFitInputs : PartialFit(m)
    \/ \E m \in FitTransformInputs : FitTransform(m)
    \/ \E m \in TransformInputs \cup {fitted_on} : Transform(m)
    \/ \E m \in RoundTripInputs \cup {fitted_on} : RoundTrip(m)

Spec == Init /\ [][Next]_vars

-----------------------------------------------------------------------------
(* what the claims speak of, computed from the fitted matrix itself *)

Fitted == fitted_on # <<>>

SetMin(S) == CHOOSE v \in S : \A w \in S : v <= w
SetMax(S) == CHOOSE v \in S : \A w \in S : v >= w

TrainMin(j) == SetMin({fitted_on[r][j] : r \in 1..Len(fitted_on)})
TrainMax(j) == SetMax({fitted_on[r][j] : r \in 1..Len(fitted_on)})

TrainCols == 1..Len(fitted_on[1])

NonDegenerate(j) == TrainMin(j) # TrainMax(j)

\* a float64 with all 53 bits of precision: not 0, not subnormal, not infinite
IsNormal(a) == IsFinite(a) /\ BitLen(a.m) = 53

\* the fit of column j stayed inside the range of float64: max - min did not
\* overflow, and its reciprocal neither overflowed nor lost bits to underflow
FitInRange(j) == IsNormal(scaler.data_range_[j]) /\ IsNormal(scaler.scale_[j])

\* a column whose training values are not all equal, fitted inside the range
\* of float64
Scalable(j) == NonDegenerate(j) /\ FitInRange(j)

RAbs(a) == IF IsNaN(a) THEN a ELSE [a EXCEPT !.s = 1]

\* the float64 next above a finite a > 0
NextUp(a) == Round64(1, BAdd(a.m, <<1>>), a.e, FALSE)

Zero == AsFloat(0)
One == AsFloat(1)
Half == RDiv(One, AsFloat(2))

\* 2^-49, eight units of float64 roundoff
Eps == RDiv(One, RMul(AsFloat(2^25), AsFloat(2^24)))

\* 1 + 2^-52 and 1 - 2^-53, the float64 values next to 1
AboveOne == NextUp(One)
BelowOne == RSub(One, RDiv(Eps, AsFloat(16)))

FMin(j) == AsFloat(TrainMin(j))
FMax(j) == AsFloat(TrainMax(j))
Range(j) == RSub(FMax(j), FMin(j))

\* the rounding error allowed for a value computed from x in column j:
\* 2^-49 * (|x| + |min_j| + |max_j|)
Tol(x, j) == RMul(Eps, RAdd(RAbs(x), RAdd(RAbs(FMin(j)), RAbs(FMax(j)))))

\* the same, in units of the column's range
ScaledTol(x, j) == RDiv(Tol(x, j), Range(j))

Near(a, b, tol) == RLe(RAbs(RSub(a, b)), tol)

\* x lies further from y than rounding error reaches
Apart(x, y, j) == RLt(RAdd(Tol(x, j), Tol(y, j)), RAbs(RSub(x, y)))

\* x lies further from the fitted bound b of column j than rounding error
\* reaches: by more than 2^-49 * (|x| + 2 * |min_j| + 2 * |max_j|)
Beyond(x, b, j) ==
    RLt(RMul(Eps, RAdd(RAbs(x), RMul(AsFloat(2), RAdd(RAbs(FMin(j)), RAbs(FMax(j)))))),
        RAbs(RSub(x, b)))

InUnitInterval(t) == RLe(Zero, t) /\ RLe(t, One)

\* (x - min_j) / (max_j - min_j), evaluated in float64 as written
Quotient(x, j) == RDiv(RSub(x, FMin(j)), Range(j))

\* x * scale + min with scale = 1 / (max_j - min_j), min = 0 - min_j * scale
ScaledFrom(x, j) ==
    LET sc == RDiv(One, Range(j))
    IN  RAdd(RMul(x, sc), RSub(Zero, RMul(FMin(j), sc)))

\* a transform call that returned a matrix
Transformed == call.op = "transform" /\ call.err = "none"

CallRows == 1..Len(call.arg)

\* the fitted scaler was asked to scale the matrix it was fitted on
ScaledTraining ==
    Fitted /\ call.op \in {"transform", "fit_transform"} /\ call.arg = fitted_on

\* C1 as claimed: transform of the training matrix itself succeeds and has,
\* in every non-degenerate column, all values in [0, 1], a row equal to
\* exactly 0 and a row equal to exactly 1.
C1_Claimed_ExactlyOntoUnitInterval ==
    ScaledTraining =>
        /\ call.err = "none"
        /\ \A j \in TrainCols : NonDegenerate(j) =>
            /\ \A r \in CallRows : InUnitInterval(call.ret[r][j])
            /\ \E r \in CallRows : REq(call.ret[r][j], Zero)
            /\ \E r \in CallRows : REq(call.ret[r][j], One)

\* C1 as amended: transform of the training matrix itself succeeds and has,
\* in every non-degenerate column, exactly 0 at the rows of the column
\* minimum, no value below 0, its largest value at the rows of the column
\* maximum, and that largest value within rounding error of 1 (the column's
\* range and its reciprocal being normal float64 numbers).
C1_TrainingMatrixScalesOntoUnitInterval ==
    ScaledTraining =>
        /\ call.err = "none"
        /\ Len(call.ret) = Len(fitted_on)
        /\ \A j \in TrainCols : Scalable(j) => \A r \in CallRows :
              LET x == fitted_on[r][j]
                  t == call.ret[r][j]
              IN  /\ RLe(Zero, t)
                  /\ x = TrainMin(j) => REq(t, Zero)
                  /\ x = TrainMax(j) =>
                        /\ \A q \in CallRows : RLe(call.ret[q][j], t)
                        /\ Near(t, One, ScaledTol(FMax(j), j))

\* the maxima of the two columns come out next above and next below 1
C1_Witness ==
    /\ Transformed
    /\ call.arg = fitted_on
    /\ fitted_on = RoundingTrain
    /\ call.ret = <<<<Zero, Zero>>, <<AboveOne, BelowOne>>>>

\* C2 as claimed: inverse_transform(transform(Y)) gives Y back on every
\* non-degenerate column, and the value it returns for s is
\* s * (max - min) + min with the min and max of the fitted matrix.
C2_Claimed_RoundTripIsExact ==
    (Fitted /\ call.op = "round_trip" /\ call.err = "none") =>
        \A j \in TrainCols : NonDegenerate(j) =>
            \A r \in CallRows :
                /\ REq(call.ret[r][j], AsFloat(call.arg[r][j]))
                /\ REq(call.ret[r][j], X_from_rescaled(call.mid[r][j], FMax(j), FMin(j)))

\* C2 as amended: inverse_transform(transform(Y)) gives Y back on every
\* non-degenerate column within rounding error, 2^-49 * (|y| + |min| + |max|),
\* and the value it returns for s, (s - min_) / scale_, is within that error
\* of s * (max - min) + min (the column's range and its reciprocal being
\* normal float64 numbers and the scaled value finite).
C2_RoundTripIsIdentity ==
    (Fitted /\ call.op = "round_trip" /\ call.err = "none") =>
        \A j \in TrainCols : Scalable(j) =>
            \A r \in CallRows : IsFinite(call.mid[r][j]) =>
                LET y == AsFloat(call.arg[r][j])
                IN  /\ Near(call.ret[r][j], y, Tol(y, j))
                    /\ Near(call.ret[r][j],
                            X_from_rescaled(call.mid[r][j], FMax(j), FMin(j)), Tol(y, j))

\* [6, 35] comes back as it was; the scaled values are 1.25
C2_Witness ==
    /\ call.op = "round_trip" /\ call.err = "none"
    /\ fitted_on = ExampleTrain
    /\ call.arg = <<<<6, 35>>>>
    /\ \A j \in 1..2 : REq(call.mid[1][j], RDiv(AsFloat(5), AsFloat(4)))
    /\ call.ret = <<<<AsFloat(6), AsFloat(35)>>>>

\* C3 as claimed: transform maps x of column j to (x - min_j) / (max_j - min_j),
\* min_j and max_j being those of the fitted matrix, not of the matrix
\* transformed; fitted on [[1,10],[3,20],[5,30]], [3,20] gives [0.5, 0.5],
\* [5,30] gives [1, 1] and [6,35] gives [1.25, 1.25].
C3_Claimed_QuotientFormula ==
    (Fitted /\ Transformed) =>
        /\ \A j \in TrainCols : NonDegenerate(j) =>
              \A r \in CallRows :
                  REq(call.ret[r][j], Quotient(AsFloat(call.arg[r][j]), j))
        /\ fitted_on = ExampleTrain =>
              /\ call.arg = <<<<3, 20>>>> => call.ret = <<<<Half, Half>>>>
              /\ call.arg = <<<<5, 30>>>> => call.ret = <<<<One, One>>>>
              /\ call.arg = <<<<6, 35>>>> =>
                    \A j \in 1..2 : REq(call.ret[1][j], RDiv(AsFloat(5), AsFloat(4)))

\* C3 as amended: transform maps x of column j to x * scale_j + min'_j with
\* scale_j = 1 / (max_j - min_j) and min'_j = 0 - min_j * scale_j, min_j and
\* max_j being those of the fitted matrix; this is within rounding error of
\* (x - min_j) / (max_j - min_j) when nothing overflows or underflows in the
\* fit and the result is finite; the three worked examples come out exactly.
C3_TransformFormula ==
    (Fitted /\ Transformed) =>
        /\ \A j \in TrainCols : NonDegenerate(j) =>
              \A r \in CallRows :
                  LET x == AsFloat(call.arg[r][j])
                  IN  /\ call.ret[r][j] = ScaledFrom(x, j)
                      /\ (FitInRange(j) /\ IsFinite(call.ret[r][j])) =>
                            Near(call.ret[r][j], Quotient(x, j), ScaledTol(x, j))
        /\ fitted_on = ExampleTrain =>
              /\ call.arg = <<<<3, 20>>>> => call.ret = <<<<Half, Half>>>>
              /\ call.arg = <<<<5, 30>>>> => call.ret = <<<<One, One>>>>
              /\ call.arg = <<<<6, 35>>>> =>
                    \A j \in 1..2 : REq(call.ret[1][j], RDiv(AsFloat(5), AsFloat(4)))

C3_Witness ==
    /\ Transformed
    /\ fitted_on = ExampleTrain
    /\ call.arg = <<<<6, 35>>>>
    /\ call.ret[1][1] = RDiv(AsFloat(5), AsFloat(4))
    /\ call.ret[1][2] = RDiv(AsFloat(5), AsFloat(4))

\* C4: transform on a scaler that holds no fit raises the not-fitted error
\* (sklearn's NotFittedError), returns no matrix and leaves the scaler
\* unfitted.
C4_TransformUnfittedRaises ==
    (~Fitted /\ call.op = "transform") =>
        /\ call.err = "NotFittedError"
        /\ call.ret = <<>>
        /\ scaler = MinMaxScaler

C4_Witness ==
    /\ n_fits = 0
    /\ call.op = "transform"
    /\ call.arg = <<<<3, 20>>>>
    /\ call.err = "NotFittedError"

DegenerateCols == {j \in TrainCols : ~NonDegenerate(j)}

AllFinite(M) == \A r \in 1..Len(M) : \A j \in 1..Len(M[r]) : IsFinite(M[r][j])

\* a transform call on a well-formed matrix of the fitted width, after a fit
\* on a matrix with a constant column
TransformWithConstantColumn ==
    /\ Fitted /\ call.op = "transform"
    /\ DegenerateCols # {}
    /\ Len(call.arg) >= 1
    /\ \A r \in CallRows : Len(call.arg[r]) = Len(fitted_on[1])

\* C5 as claimed: with a constant column in the fitted matrix, transform
\* outputs 0 throughout that column or raises DegenerateColumnError, and
\* outputs no NaN or Infinity.
C5_Claimed_ZeroOrRaise ==
    TransformWithConstantColumn =>
        \/ call.err = "DegenerateColumnError"
        \/ /\ call.err = "none"
           /\ AllFinite(call.ret)
           /\ \A j \in DegenerateCols : \A r \in CallRows : REq(call.ret[r][j], Zero)

\* C5 as amended: with a constant column (value c) in the fitted matrix,
\* transform raises nothing and divides by 1 in place of the zero range: x
\* maps to x - c, which is 0 exactly for the elements equal to c (so for the
\* whole column of the training matrix); no output of the column is NaN, and
\* none is Infinity unless x - c itself overflows.
C5_ConstantColumnShiftsOnly ==
    TransformWithConstantColumn =>
        /\ call.err = "none"
        /\ \A j \in DegenerateCols : \A r \in CallRows :
              /\ REq(call.ret[r][j], RSub(AsFloat(call.arg[r][j]), FMin(j)))
              /\ ~IsNaN(call.ret[r][j])
              /\ IsFinite(RSub(AsFloat(call.arg[r][j]), FMin(j))) => IsFinite(call.ret[r][j])

C5_Witness ==
    /\ Transformed
    /\ fitted_on = ConstantColumnTrain
    /\ call.arg = <<<<3, 20>>>>
    /\ call.ret = <<<<One, Half>>>>

\* zero rows, or rows of different lengths
Malformed(X) == Len(X) = 0 \/ \E r \in 1..Len(X) : Len(X[r]) # Len(X[1])

\* C7: fit on a matrix with zero rows or ragged rows raises the invalid-input
\* error (sklearn's ValueError) and leaves the scaler unfitted; the scaler is
\* fitted only by a fitting call that succeeded, on a well-formed matrix.
C7_FitRejectsMalformed ==
    /\ (call.op \in {"fit", "fit_transform"} /\ Malformed(call.arg)) =>
           /\ call.err = "ValueError"
           /\ call.ret = <<>>
           /\ ~scaler.fitted
           /\ ~Fitted
    /\ (call.op = "partial_fit" /\ Malformed(call.arg)) => call.err = "ValueError"
    /\ scaler.fitted <=> Fitted
    /\ Fitted => ~Malformed(fitted_on)
    /\ (call.op = "fit" /\ call.err = "none") => (scaler.fitted /\ fitted_on = call.arg)

C7_Witness ==
    /\ n_fits = 1
    /\ call.op = "fit"
    /\ call.arg = RaggedMatrix
    /\ call.err = "ValueError"
    /\ ~scaler.fitted

\* the scaler as it is directly after fit(fitted_on) on a new scaler
FreshlyFitted == fit(MinMaxScaler, fitted_on).self

\* C8: transform and inverse_transform leave the stored min and max as the
\* fit set them, so every transform call returns what the same call returns
\* when made alone directly after the fit.
C8_TransformLeavesStateAlone ==
    Fitted =>
        /\ \A j \in TrainCols :
              scaler.data_min_[j] = FMin(j) /\ scaler.data_max_[j] = FMax(j)
        /\ scaler = FreshlyFitted
        /\ call.op = "transform" => call.ret = transform(FreshlyFitted, call.arg).ret

C8_Witness ==
    /\ Transformed
    /\ n_reads = 2
    /\ fitted_on = <<<<1, 3>>, <<3, 1>>>>
    /\ call.arg = <<<<6, 35>>>>

\* C9: a fit on a fitted scaler succeeds and replaces the stored min and max
\* by those of the new matrix alone; later transforms use these only.
C9_RefitReplaces ==
    /\ (call.op = "fit" /\ ~Malformed(call.arg)) =>
           (call.err = "none" /\ fitted_on = call.arg)
    /\ Fitted =>
           /\ \A j \in TrainCols :
                 /\ scaler.data_min_[j] = FMin(j)
                 /\ scaler.data_max_[j] = FMax(j)
                 /\ scaler.data_range_[j] = Range(j)
           /\ scaler.n_samples_seen_ = Len(fitted_on)
           /\ Transformed =>
                 \A j \in TrainCols : NonDegenerate(j) => \A r \in CallRows :
                     call.ret[r][j] = ScaledFrom(AsFloat(call.arg[r][j]), j)

\* fitted a second time, on [[1,3],[3,1]]: [5, 30] maps to [2, 14.5]
C9_Witness ==
    /\ n_fits = 2
    /\ call.op = "transform"
    /\ fitted_on = <<<<1, 3>>, <<3, 1>>>>
    /\ call.arg = <<<<5, 30>>>>
    /\ call.ret = <<<<AsFloat(2), RDiv(AsFloat(29), AsFloat(2))>>>>

\* C10 as claimed: transform does not clip: on a non-degenerate column the
\* result lies in [0, 1] exactly when x lies in [min, max]; x below min maps
\* below 0 and x above max maps above 1.
C10_Claimed_UnitIntervalIffInRange ==
    (Fitted /\ Transformed) =>
        \A j \in TrainCols : NonDegenerate(j) => \A r \in CallRows :
            LET x == call.arg[r][j]
                t == call.ret[r][j]
            IN  /\ InUnitInterval(t) <=> (TrainMin(j) <= x /\ x <= TrainMax(j))
                /\ x < TrainMin(j) => RLt(t, Zero)
                /\ x > TrainMax(j) => RLt(One, t)

\* C10 as amended: transform does not clip: on a non-degenerate column, x in
\* [min, max] maps into [0, top], top being the value the fitted max maps to
\* (1 within rounding error, possibly above 1); x below min maps to 0 or
\* less and x above max to top or more, and below 0 or above 1 as soon as x
\* lies further from min or max than rounding error reaches (the column's
\* range and its reciprocal being normal float64 numbers).
C10_NoClipping ==
    (Fitted /\ Transformed) =>
        \A j \in TrainCols : Scalable(j) => \A r \in CallRows :
            LET x == call.arg[r][j]
                t == call.ret[r][j]
                top == ScaledFrom(FMax(j), j)
            IN  /\ Near(top, One, ScaledTol(FMax(j), j))
                /\ (TrainMin(j) <= x /\ x <= TrainMax(j)) => (RLe(Zero, t) /\ RLe(t, top))
                /\ x < TrainMin(j) =>
                      /\ RLe(t, Zero)
                      /\ Beyond(AsFloat(x), FMin(j), j) => RLt(t, Zero)
                /\ x > TrainMax(j) =>
                      /\ RLe(top, t)
                      /\ Beyond(AsFloat(x), FMax(j), j) => RLt(One, t)

\* [3, 1] after the worked example: 0.5 in the first column, below 0 in the
\* second
C10_Witness ==
    /\ Transformed
    /\ fitted_on = ExampleTrain
    /\ call.arg = <<<<3, 1>>>>
    /\ call.ret[1][1] = Half
    /\ RLt(call.ret[1][2], Zero)
    /\ Beyond(AsFloat(1), FMin(2), 2)

-----------------------------------------------------------------------------
(* the notebook run *)

Finished == error # NoError \/ pc = <<"done">>

Printed(line) == \E i \in 1..Len(printed) : printed[i].score = line

\* C6 as claimed: when the run has ended, both scores of every model cell
\* whose collaborator does not fail are printed, whatever the other
\* collaborators did; a failure is reported once, the cell is not run again.
C6_Claimed_FailureDoesNotAbortOthers ==
    Finished =>
        /\ \A c \in 1..Len(ModelCells) : failing[c] = "none" =>
              /\ Printed(Score(ModelCells[c], ModelCells[c].train_X, "y_train"))
              /\ Printed(Score(ModelCells[c], ModelCells[c].test_X, "y_test"))
        /\ error # NoError => failing[error.cell[2]] = error.stage

\* scaled features are in use: a scaled matrix exists, a model is fitted on
\* one, or a score computed from one is printed
ScaledInUse ==
    \/ X_train_scaled # <<>>
    \/ X_test_scaled # <<>>
    \/ \E v \in ModelVars : models[v] # Unbound /\ models[v].fitted_on = "X_train_scaled"
    \/ \E i \in 1..Len(printed) : printed[i].score.X \in {"X_train_scaled", "X_test_scaled"}

\* C11: in every run the scaler is fitted at most once, and once it is fitted
\* its attributes are those of a fit on X_train (never those of X_test); no
\* transform call is made and no scaled matrix, model fitted on scaled
\* features or score of one exists before that one fit.
C11_ScalerFittedOnceOnTrainFirst ==
    /\ n_fits <= 1
    /\ n_reads > 0 => n_fits = 1 /\ scaler.fitted
    /\ scaler.fitted => /\ n_fits = 1
                        /\ fitted_on = X_train
                        /\ scaler = fit(MinMaxScaler, X_train).self
    /\ ScaledInUse => n_fits = 1 /\ scaler.fitted
    /\ pc \in {<<"split">>, <<"scale">>} => n_fits = 0 \/ error # NoError

\* a finished run whose scaler differs from the one a fit on X_test gives
C11_Witness ==
    /\ pc = <<"done">>
    /\ n_fits = 1 /\ n_reads = 2
    /\ ScaledInUse
    /\ scaler # fit(MinMaxScaler, X_test).self
    /\ models["ada"].fitted_on = "X_train_scaled"

\* the row of features a row of the dataset stands for once its missing
\* values are zero
ZeroFilled(row) == [j \in 1..Len(row) |-> IF row[j] = Missing THEN 0 ELSE row[j][1]]

\* how often a row occurs in a matrix
Occurrences(row, X) == Cardinality({r \in 1..Len(X) : X[r] = row})

SplitRows == X_train \o X_test

FiniteMatrix(S) == \A r \in 1..Len(S) : \A j \in 1..Len(S[r]) : IsFinite(S[r][j])

\* C12: once the split has run, X_train and X_test together hold every row
\* of the dataset exactly once, each missing value as 0 and each present
\* value as it was; so no matrix the scaler or a model is given (X_train,
\* X_test, X_train_scaled, X_test_scaled) holds a missing value.
C12_MissingValuesAreZeroBeforeSplit ==
    pc # <<"split">> =>
        /\ Len(SplitRows) = Len(data)
        /\ \A d \in 1..Len(data) :
              Occurrences(ZeroFilled(data[d]), SplitRows)
                  = Cardinality({e \in 1..Len(data) : ZeroFilled(data[e]) = ZeroFilled(data[d])})
        /\ \A r \in 1..Len(SplitRows) : \A j \in 1..Len(Features) : SplitRows[r][j] \in Int
        /\ Len(X_train) > 0 /\ Len(X_test) > 0
        /\ FiniteMatrix(X_train_scaled) /\ FiniteMatrix(X_test_scaled)

\* a finished run on a dataset with missing values in rows of both parts,
\* next to values that are present
C12_Witness ==
    /\ pc = <<"done">>
    /\ \E d \in 1..Len(data) : data[d][2] = Missing
    /\ \E r \in 1..Len(X_train) : X_train[r] = <<1, 0, 1>>
    /\ \E r \in 1..Len(X_test) : X_test[r] = <<3, 3, 0>>
    /\ \E r \in 1..Len(X_train) : X_train[r] = <<1, 1, 3>>

\* the table of scores: its keys
Algorithms == {"LogisticRegression", "SVC", "MLPClassifier", "KNeighborsClassifier",
               "RandomForestClassifier", "AdaBoostClassifier"}
Variants == {"unscaled", "scaled"}
Partitions == {"train", "test"}

VariantOf(X) == IF X \in {"X_train_scaled", "X_test_scaled"} THEN "scaled" ELSE "unscaled"
PartitionOf(X) == IF X \in {"X_train", "X_train_scaled"} THEN "train" ELSE "test"

\* the printed scores that belong to one key of the table
ScoresFor(a, v, p) ==
    {i \in 1..Len(printed) : /\ printed[i].score.algo = a
                             /\ VariantOf(printed[i].score.X) = v
                             /\ PartitionOf(printed[i].score.X) = p}

NoneFails == \A c \in 1..Len(ModelCells) : failing[c] = "none"

\* C13: when no collaborator fails, the finished run has printed 24 scores,
\* exactly one for every combination of the six models, the two feature
\* variants and the two partitions.
C13_OneScorePerCombination ==
    (NoneFails /\ Finished) =>
        /\ pc = <<"done">>
        /\ Len(printed) = 24
        /\ \A a \in Algorithms : \A v \in Variants : \A p \in Partitions :
              Cardinality(ScoresFor(a, v, p)) = 1

\* a finished run without failures, its last score that of AdaBoost on the
\* scaled test set
C13_Witness ==
    /\ NoneFails /\ pc = <<"done">>
    /\ Len(printed) = 24
    /\ printed[24].score.algo = "AdaBoostClassifier"
    /\ printed[24].score.X = "X_test_scaled"
    /\ printed[1].score.X = "X_train"

RECURSIVE DocumentKernel(_)
\* the names models and pred after the first n model cells have run from top
\* to bottom
DocumentKernel(n) ==
    IF n = 0 THEN [models |-> [v \in ModelVars |-> Unbound], pred |-> Unbound]
    ELSE LET r == run_cell(DocumentKernel(n - 1), n, "none")
         IN  [models |-> r.models, pred |-> r.pred]

\* what cell c prints in a run from top to bottom
DocumentOutput(c) == output(c, run_cell(DocumentKernel(c - 1), c, "none").out)

\* the names models and pred as a run of a cell leaves them
KernelAfter(r) == [models |-> r.models, pred |-> r.pred]

RECURSIVE KernelsFrom(_, _)
\* the kernels reached from those of frontier by running model cells, each
\* any number of times and in any order; seen holds the kernels already met
KernelsFrom(seen, frontier) ==
    IF frontier = {} THEN seen
    ELSE KernelsFrom(seen \cup frontier,
                     {KernelAfter(run_cell(k, c, "none")) :
                          k \in frontier, c \in 1..Len(ModelCells)} \ (seen \cup frontier))

\* the names models and pred as any sequence of model cells, run to their end
\* on the kernel as it is, can leave them (the split and the scaling cells
\* bind neither)
AnyOrderKernels == KernelsFrom({}, {[models |-> models, pred |-> pred]})

\* the split and the scaling cells have run
SplitAndScaled ==
    /\ bound("X_train") /\ bound("X_test")
    /\ bound("X_train_scaled") /\ bound("X_test_scaled")

\* C14: once the split and the scaling cells have run, a model cell, run in
\* its turn from top to bottom or by hand, whatever cells were run before it
\* and in whatever order, prints the scores it prints in a run from top to
\* bottom alone: no score depends on a model or a pred left behind by another
\* cell.  From the kernel the notebook starts with, the same holds of every
\* kernel that the twelve cells, run any number of times in any order, leave.
C14_ScoresIndependentOfCellOrder ==
    /\ \E K \in {AnyOrderKernels} :
          \A c \in 1..Len(ModelCells) : \E o \in {DocumentOutput(c)} :
              \A k \in K : output(c, run_cell(k, c, "none").out) = o
    /\ [][\A c \in 1..Len(ModelCells) :
             (SplitAndScaled /\ (ModelCell(c) \/ ModelCellByHand(c))) =>
                 printed' = printed \o DocumentOutput(c)]_vars

\* all twelve cells ran from top to bottom, the last cell was run by hand
\* before the first and the scaled logistic cell again after the last, which
\* rebinds logit and pred
C14_Witness ==
    /\ pc = <<"done">> /\ by_hand = 2
    /\ Len(printed) = 28
    /\ printed[1].cell = Len(ModelCells) /\ printed[3].cell = 1
    /\ printed[25].cell = Len(ModelCells) /\ printed[27].cell = 2
    /\ models["logit"].fitted_on = "X_train_scaled"
    /\ pred.X = "X_test_scaled"

\* C15: every printed score comes from a model fitted with y_train on the
\* training matrix of the variant of the matrix it is scored on, and the
\* labels it is compared with are those of the partition of that matrix.
C15_ScoresHaveConsistentInputs ==
    \A i \in 1..Len(printed) :
        LET s == printed[i].score
            cell == ModelCells[printed[i].cell]
        IN  /\ s.algo = cell.algo
            /\ s.fit_y = "y_train"
            /\ s.fit_X = (IF VariantOf(s.X) = "scaled" THEN "X_train_scaled" ELSE "X_train")
            /\ s.X \in {"X_train", "X_test", "X_train_scaled", "X_test_scaled"}
            /\ s.y = (IF PartitionOf(s.X) = "train" THEN "y_train" ELSE "y_test")

\* a run that printed a score on the scaled test set and one on the unscaled
\* train set
C15_Witness ==
    /\ \E i \in 1..Len(printed) :
          /\ printed[i].score.X = "X_test_scaled"
          /\ printed[i].score.fit_X = "X_train_scaled"
          /\ printed[i].score.y = "y_test"
    /\ \E i \in 1..Len(printed) :
          /\ printed[i].score.X = "X_train"
          /\ printed[i].score.y = "y_train"
    /\ error # NoError

\* the test matrices another run with the same training matrix may have
OtherTests == [1..Len(X_test) -> {ZeroFilled(row) : row \in DataRows}]

\* C16: after the scaling cell, and at the end of the run, the scaler and
\* X_train_scaled are those the scaling cell computes from the same X_train
\* and any other test rows T: fit(X_train), transform(X_train), transform(T).
C16_TestRowsDoNotInfluenceScaler ==
    pc \in {<<"stats">>, <<"done">>} =>
        LET f  == fit(MinMaxScaler, X_train)
            t1 == call_transform(f.self, X_train)
        IN  /\ X_train_scaled = t1.ret
            /\ scaler.data_min_ = f.self.data_min_
            /\ scaler.data_max_ = f.self.data_max_
            /\ \A T \in OtherTests : scaler = call_transform(t1.self, T).self

\* a finished run, and other test rows whose minimum and maximum differ from
\* those of the training matrix
C16_Witness ==
    /\ pc = <<"done">>
    /\ \E T \in OtherTests :
          /\ T # X_test
          /\ fit(MinMaxScaler, T).self.data_max_ # scaler.data_max_
    /\ fit(MinMaxScaler, X_test).self.data_min_ # scaler.data_min_

-----------------------------------------------------------------------------
(* order of the values *)

\* values to compare: values of the matrices of the model, and the float64
\* next above 3
CloseLow == AsFloat(3)
CloseHigh == NextUp(CloseLow)

Probes == {AsFloat(v) : v \in {1, 3, 6, 20, 35}} \cup {CloseHigh}

\* what transform makes of the value x in column j
Scaled(x, j) == transform_value(x, scaler.scale_[j], scaler.min_[j])

\* C17 as claimed: for a fitted scaler and a column whose training values
\* are not all equal, transform keeps the order of any two values of the
\* column strictly and maps equal values, and only those, to equal values.
C17_Claimed_StrictlyOrderPreserving ==
    Fitted =>
        \A j \in TrainCols : NonDegenerate(j) =>
            LET T == [x \in Probes |-> Scaled(x, j)]
            IN  \A x, y \in Probes :
                    /\ RLt(x, y) <=> RLt(T[x], T[y])
                    /\ REq(x, y) <=> REq(T[x], T[y])

\* C17 as amended: for a fitted scaler and a column whose training values
\* are not all equal, transform never reverses the order of two values:
\* x <= y gives transform(x) <= transform(y), equal values map to equal
\* values, and transform(x) < transform(y) only if x < y; two values further
\* apart than rounding error reaches keep their strict order, closer ones
\* may map to the same value, as do values that both overflow to infinity.
\* The rows of a transformed matrix rank as the rows of the matrix did, up to
\* such ties.  (The column's range and its reciprocal are normal float64
\* numbers.)
C17_TransformOrderPreserving ==
    Fitted =>
        \A j \in TrainCols : Scalable(j) =>
            LET T == [x \in Probes |-> Scaled(x, j)]
            IN  /\ \A x, y \in Probes :
                      /\ RLe(x, y) => RLe(T[x], T[y])
                      /\ REq(x, y) => REq(T[x], T[y])
                      /\ RLt(T[x], T[y]) => RLt(x, y)
                      /\ (RLt(x, y) /\ Apart(x, y, j) /\ IsFinite(T[x]) /\ IsFinite(T[y]))
                            => RLt(T[x], T[y])
                /\ (call.op = "transform" /\ call.err = "none") =>
                      \A r1, r2 \in 1..Len(call.arg) :
                         /\ (call.arg[r1][j] <= call.arg[r2][j])
                                => RLe(call.ret[r1][j], call.ret[r2][j])
                         /\ (call.arg[r1][j] < call.arg[r2][j]
                                /\ Apart(AsFloat(call.arg[r1][j]), AsFloat(call.arg[r2][j]), j))
                                => RLt(call.ret[r1][j], call.ret[r2][j])

\* the training matrix of the worked example was transformed: its rows rank
\* as before, and 3 and the float64 next above it map to one value in the
\* second column
C17_Witness ==
    /\ fitted_on = ExampleTrain
    /\ call.op = "transform" /\ call.err = "none" /\ call.arg = ExampleTrain
    /\ RLt(call.ret[1][1], call.ret[2][1]) /\ RLt(call.ret[2][2], call.ret[3][2])
    /\ RLt(CloseLow, CloseHigh)
    /\ REq(Scaled(CloseLow, 2), Scaled(CloseHigh, 2))
    /\ ~Apart(CloseLow, CloseHigh, 2)
    /\ Apart(AsFloat(3), AsFloat(6), 2)
    /\ RLt(Scaled(AsFloat(3), 2), Scaled(AsFloat(6), 2))

=============================================================================
